---- MODULE Spec2Model ----
(***************************************************************************)
(* Model of pyFlightscript's script state (pyFlightscript/script.py): the  *)
(* process-wide State object holding the script lines, the module-level    *)
(* functions that write it to a file, clear it, hard-reset it, and the     *)
(* runner that launches the FlightStream executable on a script file.      *)
(*                                                                         *)
(* A text is a sequence of characters; a line of the log is a text; the    *)
(* log is a sequence of lines; a file's content is a text.                 *)
(***************************************************************************)
EXTENDS FiniteSets, Integers, Sequences, TLC

\* ---------------------------------------------------------------- bounds
MaxLines   == 2     \* longest log explored
MaxArgLen  == 2     \* longest list handed to one append_lines call

\* ------------------------------------------------------------ vocabulary
NL == "\n"

\* the lines a caller appends: an empty line, a command word, and a text
\* that carries a newline of its own (append_lines accepts any str)
Line == { <<>>, <<"A">>, <<"B", NL>> }
LineList(n) == UNION {[1..k -> Line] : k \in 0..n}

\* the default of State.write_to_file, write_to_file and hard_reset
DefaultFilename == "script_out.txt"
\* the default script_path of run_script
DefaultScriptPath == ".\\script_out.txt"
\* a second file of the working directory, written by an earlier session
OtherFilename == "old_script.txt"

Paths == {DefaultFilename, OtherFilename}
WritePaths == {DefaultFilename}
ScriptPaths == {DefaultScriptPath, DefaultFilename}
Exes == {"FlightStream.exe"}

NoFile == [exists |-> FALSE, content |-> <<>>]
File(text) == [exists |-> TRUE, content |-> text]
OldContent == <<"A">>

\* what the external application can end with: exit code, stdout, stderr
ProcOutcomes ==
    { [returncode |-> 0, stdout |-> "solver done", stderr |-> ""],
      [returncode |-> 1, stdout |-> "", stderr |-> "license error"],
      [returncode |-> 2, stdout |-> "", stderr |-> ""] }

\* no CompletedProcess, no subprocess
NoResult == [args |-> <<>>, returncode |-> -1, stdout |-> "", stderr |-> ""]
NoProc == [state |-> "none", args |-> <<>>, script |-> "",
           returncode |-> -1, stdout |-> "", stderr |-> ""]

\* os.name of the platform the interpreter and the application run on
Platforms == {"nt", "posix"}

\* the file of the working directory a relative path names: on Windows
\* '\\' separates directories and '.\\name' is the file name; elsewhere '\\'
\* is an ordinary character of the file name
Resolve(os, path) ==
    IF os = "nt" /\ path = DefaultScriptPath THEN DefaultFilename ELSE path

\* ----------------------------------------------------------------- state
VARIABLES
    lines,      \* script.lines
    appended,   \* history: the arguments of append_lines since the log was
                \* last empty, each as a list, concatenated in call order
    fs,         \* the files of the working directory, by path
    proc,       \* the subprocess of the running run_script call
    pc,         \* "idle", or "waiting" inside subprocess.run
    last,       \* the most recent call: its name, arguments and outcome
    os_name,    \* the platform
    calls,      \* history: the command-formatter calls since the log was
                \* last cleared
    held,       \* a reference to script.lines a caller took and kept
    caller_list \* a list the caller built and passes to append_lines

vars == <<lines, appended, fs, proc, pc, last, os_name, calls, held,
          caller_list>>

\* a kept reference: none, one to the list object script.lines is bound to
\* now ("log": it reads the log), or one to a list object script.lines was
\* bound to earlier ("old": it reads that object's content)
NoRef == [state |-> "none", content |-> <<>>]
LogRef == [state |-> "log", content |-> <<>>]
OldRef(content) == [state |-> "old", content |-> content]

\* what reading through the reference h gives when the log is ls
Deref(h, ls) == IF h.state = "log" THEN ls ELSE h.content

\* the caller's list object: its content, and whether script.lines is bound
\* to this very object
CallerList(content, is_log) == [content |-> content, is_log |-> is_log]

\* a call of the public interface: the function, its filename or
\* script_path, how it ended ("returned", "raised", or "called" while it has
\* not ended), what the operating system answered, and what it printed
Call(op, path, outcome, detail, printed) ==
    [op |-> op, path |-> path, exe |-> "", hidden |-> FALSE,
     outcome |-> outcome, detail |-> detail, printed |-> printed,
     result |-> NoResult, attempts |-> 0, args |-> <<>>, block |-> <<>>]

\* a call of run_script: subprocess.run starts the executable once
RunCall(fsexe_path, script_path, hidden, outcome, detail) ==
    [op |-> "run_script", path |-> script_path, exe |-> fsexe_path,
     hidden |-> hidden, outcome |-> outcome, detail |-> detail,
     printed |-> <<>>, result |-> NoResult, attempts |-> 1, args |-> <<>>,
     block |-> <<>>]

\* console messages
Msg(kind, path, text) == [msg |-> kind, path |-> path, text |-> text]

\* ------------------------------------------------------- State (script.py)

\* append_lines that skips a line the log already holds
append_lines_unique(ls, kind, val) ==
    LET Held(l) == \E i \in 1..Len(ls) : ls[i] = l
        RECURSIVE Add(_, _)
        Add(acc, rest) ==
            IF rest = <<>> THEN acc
            ELSE Add(IF \E i \in 1..Len(acc) : acc[i] = Head(rest)
                     THEN acc ELSE Append(acc, Head(rest)), Tail(rest))
    IN  IF kind = "str" THEN (IF Held(val) THEN ls ELSE Append(ls, val))
        ELSE IF kind = "list" THEN Add(ls, val)
        ELSE ls

\* append_lines that inserts at the front of the log
append_lines_front(ls, kind, val) ==
    IF kind = "str" THEN <<val>> \o ls
    ELSE IF kind = "list" THEN val \o ls
    ELSE ls

\* append_lines that extends the log with any argument that is not a str
append_lines_any(ls, kind, val) ==
    IF kind = "str" THEN Append(ls, val)
    ELSE ls \o val

\* State.append_lines: a str is appended as one line, a list is extended
\* element by element, anything else is ignored.
append_lines(ls, kind, val) ==
    IF kind = "str" THEN Append(ls, val)
    ELSE IF kind = "list" THEN ls \o val
    ELSE ls

\* clear_lines that drops only the last line
clear_lines_pop(ls) ==
    IF ls = <<>> THEN <<>> ELSE SubSeq(ls, 1, Len(ls) - 1)

\* State.clear_lines: self.lines = []
clear_lines(ls) == <<>>

\* (variant: the list object is emptied in place, self.lines.clear())
Rebind_in_place(h, ls) == h

\* self.lines = []: script.lines is bound to a new list object; a reference
\* to the object it was bound to keeps reading that object
Rebind(h, ls) == IF h.state = "log" THEN OldRef(ls) ELSE h

\* State.display_lines: one print per line
display_lines(ls) == [i \in 1..Len(ls) |-> Msg("line", "", ls[i])]

\* the text without the additional trailing newline
FileText_no_blank(ls) ==
    LET RECURSIVE W(_)
        W(r) == IF r = <<>> THEN <<>> ELSE (Head(r) \o <<NL>>) \o W(Tail(r))
    IN  W(ls)

\* the text State.write_to_file writes: line + '\n' for each line of the
\* log, then one more '\n'
RECURSIVE WriteLines(_)
WriteLines(ls) ==
    IF ls = <<>> THEN <<>>
    ELSE (Head(ls) \o <<NL>>) \o WriteLines(Tail(ls))

FileText(ls) == WriteLines(ls) \o <<NL>>

\* write_to_file opening the file in append mode
write_to_file_append(files, filename, ls) ==
    LET Text2(r) ==
          LET RECURSIVE W(_)
              W(q) == IF q = <<>> THEN <<>>
                      ELSE (Head(q) \o <<NL>>) \o W(Tail(q))
          IN  W(r) \o <<NL>>
    IN  [files EXCEPT ![filename] = File(files[filename].content \o Text2(ls))]

\* open(filename, 'w') followed by the writes: the file is truncated and
\* holds exactly the text written
write_to_file(files, filename, ls) ==
    [files EXCEPT ![filename] = File(FileText(ls))]

\* open(filename, 'w') followed by writes that fail before the text is
\* complete (disk full): the file is truncated and holds the first k
\* characters of the text
write_partial(files, filename, ls, k) ==
    [files EXCEPT ![filename] = File(SubSeq(FileText(ls), 1, k))]

\* os.remove that ignores its argument and removes the default file
os_remove_default(files, filename) ==
    [files EXCEPT !["script_out.txt"] = [exists |-> FALSE, content |-> <<>>]]

\* os.remove(filename)
os_remove(files, filename) == [files EXCEPT ![filename] = NoFile]

\* the argument list with the hidden flag put last
Command_flag_last(fsexe_path, script_path, hidden) ==
    <<fsexe_path, "-script", script_path>>
        \o (IF hidden THEN <<"-hidden">> ELSE <<>>)

\* the argument list run_script hands to subprocess.run
Command(fsexe_path, script_path, hidden) ==
    (<<fsexe_path>> \o (IF hidden THEN <<"-hidden">> ELSE <<>>))
        \o <<"-script", script_path>>

\* ------------------------------------------------------------------ Init
Init ==
    /\ lines = <<>>
    /\ appended = <<>>
    /\ fs \in [Paths -> {NoFile, File(OldContent)}]
    /\ proc = NoProc
    /\ pc = "idle"
    /\ last = Call("init", "", "returned", "", <<>>)
    /\ os_name \in Platforms
    /\ calls = 0
    /\ held = NoRef
    /\ caller_list = CallerList(<<>>, FALSE)

\* --------------------------------------------------------------- actions

\* script.append_lines(lines) with a str
AppendStr ==
    /\ pc = "idle"
    /\ Len(lines) < MaxLines
    /\ \E l \in Line :
        /\ lines' = append_lines(lines, "str", l)
        /\ appended' = appended \o <<l>>
    /\ last' = [Call("append_lines", "", "returned", "", <<>>)
                   EXCEPT !.args = <<"str", 1>>]
    /\ UNCHANGED <<held, caller_list, os_name, calls, fs, proc, pc>>

\* script.append_lines(lines) with a list
AppendList ==
    /\ pc = "idle"
    /\ \E ll \in LineList(MaxArgLen) :
        /\ Len(lines) + Len(ll) <= MaxLines
        /\ lines' = append_lines(lines, "list", ll)
        /\ appended' = appended \o ll
        /\ last' = [Call("append_lines", "", "returned", "", <<>>)
                       EXCEPT !.args = <<"list", Len(ll)>>]
    /\ UNCHANGED <<held, caller_list, os_name, calls, fs, proc, pc>>

\* script.append_lines(lines) with a tuple of lines or None
AppendOther ==
    /\ pc = "idle"
    /\ \E kind \in {"tuple", "none"} :
       \E ll \in LineList(MaxArgLen) :
        /\ kind = "none" => ll = <<>>
        /\ lines' = append_lines(lines, kind, ll)
        /\ last' = [Call("append_lines", "", "returned", "", <<>>)
                       EXCEPT !.args = <<kind, Len(ll)>>]
    /\ UNCHANGED <<held, caller_list, os_name, calls, appended, fs, proc, pc>>

\* display_lines()
DisplayLines ==
    /\ pc = "idle"
    /\ last' = Call("display_lines", "", "returned", "",
                    display_lines(lines))
    /\ UNCHANGED <<held, caller_list, os_name, calls, lines, appended, fs, proc, pc>>

\* write_to_file that clears the log once the file is written
WriteToFile_clearing ==
    /\ pc = "idle"
    /\ \E filename \in WritePaths :
       \E io \in {"ok", "oserror", "write_error"} :
        IF io = "ok"
        THEN /\ fs' = [fs EXCEPT ![filename] =
                          File(LET RECURSIVE W(_)
                                   W(q) == IF q = <<>> THEN <<NL>>
                                           ELSE (Head(q) \o <<NL>>)
                                                    \o W(Tail(q))
                               IN  W(lines))]
             /\ lines' = <<>>
             /\ appended' = <<>>
             /\ last' = Call("write_to_file", filename, "returned", io,
                             <<Msg("written", filename, <<>>)>>)
        ELSE /\ fs' = IF io = "oserror" THEN fs
                      ELSE [fs EXCEPT ![filename] = File(<<>>)]
             /\ UNCHANGED <<lines, appended>>
             /\ last' = Call("write_to_file", filename, "raised", io, <<>>)
    /\ UNCHANGED <<held, caller_list, os_name, calls, proc, pc>>

\* write_to_file that catches the I/O error and reports success
WriteToFile_swallow ==
    /\ pc = "idle"
    /\ \E filename \in WritePaths :
       \E io \in {"ok", "oserror", "write_error"} :
        /\ fs' = IF io = "ok" THEN write_to_file(fs, filename, lines)
                 ELSE IF io = "oserror" THEN fs
                 ELSE [fs EXCEPT ![filename] = File(<<>>)]
        /\ last' = Call("write_to_file", filename, "returned", io,
                        <<Msg("written", filename, <<>>)>>)
    /\ UNCHANGED <<held, caller_list, os_name, calls, lines, appended, proc, pc>>

\* write_to_file(filename): script.write_to_file, then the message; when
\* open() raises ("oserror") or a write fails after the file was opened
\* ("write_error"), the error propagates and nothing is printed
WriteToFile ==
    /\ pc = "idle"
    /\ \E filename \in WritePaths :
       \E io \in {"ok", "oserror", "write_error"} :
        CASE io = "ok" ->
               /\ fs' = write_to_file(fs, filename, lines)
               /\ last' = Call("write_to_file", filename, "returned", io,
                               <<Msg("written", filename, <<>>)>>)
          [] io = "oserror" ->
               /\ fs' = fs
               /\ last' = Call("write_to_file", filename, "raised", io, <<>>)
          [] io = "write_error" ->
               /\ \E k \in 0..(Len(FileText(lines)) - 1) :
                    fs' = write_partial(fs, filename, lines, k)
               /\ last' = Call("write_to_file", filename, "raised", io, <<>>)
    /\ UNCHANGED <<held, caller_list, os_name, calls, lines, appended, proc, pc>>

\* clear_lines that refuses once the script has been written
ClearLines_unwritten ==
    /\ pc = "idle"
    /\ last.op # "write_to_file"
    /\ lines' = clear_lines(lines)
    /\ appended' = <<>>
    /\ last' = Call("clear_lines", "", "returned", "",
                    <<Msg("cleared", "", <<>>)>>)
    /\ calls' = 0
    /\ held' = Rebind(held, lines)
    /\ caller_list' = [caller_list EXCEPT !.is_log = FALSE]
    /\ UNCHANGED <<os_name, fs, proc, pc>>

\* clear_lines that removes the default script file as well
ClearLines_removing ==
    /\ pc = "idle"
    /\ lines' = clear_lines(lines)
    /\ appended' = <<>>
    /\ last' = Call("clear_lines", "", "returned", "",
                    <<Msg("cleared", "", <<>>)>>)
    /\ calls' = 0
    /\ held' = Rebind(held, lines)
    /\ caller_list' = [caller_list EXCEPT !.is_log = FALSE]
    /\ fs' = os_remove(fs, DefaultFilename)
    /\ UNCHANGED <<os_name, proc, pc>>

\* clear_lines that empties the list object in place
ClearLines_in_place ==
    /\ pc = "idle"
    /\ lines' = clear_lines(lines)
    /\ appended' = <<>>
    /\ last' = Call("clear_lines", "", "returned", "",
                    <<Msg("cleared", "", <<>>)>>)
    /\ calls' = 0
    /\ held' = Rebind_in_place(held, lines)
    /\ caller_list' = [caller_list EXCEPT !.is_log = FALSE]
    /\ UNCHANGED <<os_name, fs, proc, pc>>

\* clear_lines()
ClearLines ==
    /\ pc = "idle"
    /\ lines' = clear_lines(lines)
    /\ appended' = <<>>
    /\ last' = Call("clear_lines", "", "returned", "",
                    <<Msg("cleared", "", <<>>)>>)
    /\ calls' = 0
    /\ held' = Rebind(held, lines)
    /\ caller_list' = [caller_list EXCEPT !.is_log = FALSE]
    /\ UNCHANGED <<os_name, fs, proc, pc>>

\* hard_reset that removes the file first, outside any try, and clears the
\* log afterwards: a failed removal propagates and the log is kept
HardReset_unguarded ==
    /\ pc = "idle"
    /\ \E filename \in Paths :
        IF fs[filename].exists
        THEN \E rm \in {"ok", "oserror", "vanished"} :
               /\ fs' = IF rm = "oserror" THEN fs
                        ELSE [fs EXCEPT ![filename] =
                                 [exists |-> FALSE, content |-> <<>>]]
               /\ lines' = IF rm = "ok" THEN <<>> ELSE lines
               /\ appended' = IF rm = "ok" THEN <<>> ELSE appended
               /\ last' = Call("hard_reset", filename,
                               IF rm = "ok" THEN "returned" ELSE "raised",
                               rm, <<>>)
        ELSE /\ fs' = fs
             /\ lines' = <<>>
             /\ appended' = <<>>
             /\ last' = Call("hard_reset", filename, "returned", "absent",
                             <<>>)
    /\ calls' = 0
    /\ held' = Rebind(held, lines)
    /\ caller_list' = [caller_list EXCEPT !.is_log = FALSE]
    /\ UNCHANGED <<os_name, proc, pc>>

\* hard_reset that catches PermissionError only: the error of a file that
\* vanished after the check propagates
HardReset_permission ==
    /\ pc = "idle"
    /\ lines' = clear_lines(lines)
    /\ appended' = <<>>
    /\ \E filename \in Paths :
        IF fs[filename].exists
        THEN \E rm \in {"ok", "oserror", "vanished"} :
               /\ fs' = IF rm = "oserror" THEN fs
                        ELSE os_remove(fs, filename)
               /\ last' = Call("hard_reset", filename,
                               IF rm = "vanished" THEN "raised"
                               ELSE "returned", rm,
                               IF rm = "ok" THEN <<>>
                               ELSE <<Msg("error", filename, <<>>)>>)
        ELSE /\ fs' = fs
             /\ last' = Call("hard_reset", filename, "returned", "absent",
                             <<>>)
    /\ calls' = 0
    /\ held' = Rebind(held, lines)
    /\ caller_list' = [caller_list EXCEPT !.is_log = FALSE]
    /\ UNCHANGED <<os_name, proc, pc>>

\* hard_reset(filename): clear, then remove the file if it exists; os.remove
\* succeeds, fails with an OSError that leaves the file (permission, lock),
\* or fails because another process removed the file after the check
HardReset ==
    /\ pc = "idle"
    /\ lines' = clear_lines(lines)
    /\ appended' = <<>>
    /\ \E filename \in Paths :
        IF fs[filename].exists
        THEN \E rm \in {"ok", "oserror", "vanished"} :
               /\ fs' = IF rm = "oserror" THEN fs
                        ELSE os_remove(fs, filename)
               /\ last' = Call("hard_reset", filename, "returned", rm,
                               IF rm = "ok" THEN <<>>
                               ELSE <<Msg("error", filename, <<>>)>>)
        ELSE /\ fs' = fs
             /\ last' = Call("hard_reset", filename, "returned", "absent",
                             <<>>)
    /\ calls' = 0
    /\ held' = Rebind(held, lines)
    /\ caller_list' = [caller_list EXCEPT !.is_log = FALSE]
    /\ UNCHANGED <<os_name, proc, pc>>

\* run_script that starts the executable a second time when the first
\* launch fails
RunScript_retry ==
    /\ pc = "idle"
    /\ \E fsexe_path \in Exes : \E script_path \in ScriptPaths :
       \E hidden \in BOOLEAN : \E launch \in {"started", "oserror"} :
       \E again \in {"started", "oserror"} :
        LET command == Command(fsexe_path, script_path, hidden)
            tries == IF launch = "started" THEN 1 ELSE 2
        IN
        IF launch = "started" \/ again = "started"
        THEN /\ proc' = [NoProc EXCEPT !.state = "running",
                                       !.args = command,
                                       !.script = Resolve(os_name,
                                                          script_path)]
             /\ pc' = "waiting"
             /\ last' = [RunCall(fsexe_path, script_path, hidden, "called",
                                 launch) EXCEPT !.attempts = tries]
        ELSE /\ proc' = NoProc
             /\ pc' = "idle"
             /\ last' = [RunCall(fsexe_path, script_path, hidden, "raised",
                                 launch) EXCEPT !.attempts = tries]
    /\ UNCHANGED <<held, caller_list, os_name, calls, lines, appended, fs>>

\* run_script that writes the log to the script file before the launch
RunScript_writes ==
    /\ pc = "idle"
    /\ \E fsexe_path \in Exes : \E script_path \in ScriptPaths :
       \E hidden \in BOOLEAN : \E launch \in {"started", "oserror"} :
        LET command == Command(fsexe_path, script_path, hidden) IN
        IF launch = "started"
        THEN /\ proc' = [NoProc EXCEPT !.state = "running",
                                       !.args = command,
                                       !.script = Resolve(os_name,
                                                          script_path)]
             /\ pc' = "waiting"
             /\ last' = RunCall(fsexe_path, script_path, hidden, "called",
                                launch)
        ELSE /\ proc' = NoProc
             /\ pc' = "idle"
             /\ last' = RunCall(fsexe_path, script_path, hidden, "raised",
                                launch)
    /\ fs' = write_to_file(fs, DefaultFilename, lines)
    /\ UNCHANGED <<held, caller_list, os_name, calls, lines, appended>>

\* run_script: build the command and start the subprocess; when the launch
\* fails the error propagates
RunScript ==
    /\ pc = "idle"
    /\ \E fsexe_path \in Exes : \E script_path \in ScriptPaths :
       \E hidden \in BOOLEAN : \E launch \in {"started", "oserror"} :
        LET command == Command(fsexe_path, script_path, hidden) IN
        IF launch = "started"
        THEN /\ proc' = [NoProc EXCEPT !.state = "running",
                                       !.args = command,
                                       !.script = Resolve(os_name,
                                                          script_path)]
             /\ pc' = "waiting"
             /\ last' = RunCall(fsexe_path, script_path, hidden, "called",
                                launch)
        ELSE /\ proc' = NoProc
             /\ pc' = "idle"
             /\ last' = RunCall(fsexe_path, script_path, hidden, "raised",
                                launch)
    /\ UNCHANGED <<held, caller_list, os_name, calls, lines, appended, fs>>

\* the external application exits
ProcExit ==
    /\ proc.state = "running"
    /\ \E o \in ProcOutcomes :
        proc' = [proc EXCEPT !.state = "exited",
                             !.returncode = o.returncode,
                             !.stdout = o.stdout, !.stderr = o.stderr]
    /\ UNCHANGED <<held, caller_list, os_name, calls, lines, appended, fs, pc, last>>

\* run_script that runs the subprocess with check=True: a non-zero exit
\* code is raised as an error
RunScriptReturn_check ==
    /\ pc = "waiting"
    /\ proc.state = "exited"
    /\ last' = IF proc.returncode = 0
               THEN [last EXCEPT !.outcome = "returned",
                                 !.result = [args |-> proc.args,
                                             returncode |-> proc.returncode,
                                             stdout |-> proc.stdout,
                                             stderr |-> proc.stderr]]
               ELSE [last EXCEPT !.outcome = "raised"]
    /\ pc' = "idle"
    /\ proc' = NoProc
    /\ UNCHANGED <<held, caller_list, os_name, calls, lines, appended, fs>>

\* subprocess.run returns the CompletedProcess, run_script returns it
RunScriptReturn ==
    /\ pc = "waiting"
    /\ proc.state = "exited"
    /\ last' = [last EXCEPT !.outcome = "returned",
                            !.result = [args |-> proc.args,
                                        returncode |-> proc.returncode,
                                        stdout |-> proc.stdout,
                                        stderr |-> proc.stderr]]
    /\ pc' = "idle"
    /\ proc' = NoProc
    /\ UNCHANGED <<held, caller_list, os_name, calls, lines, appended, fs>>

Next ==
    \/ AppendStr
    \/ AppendList
    \/ AppendOther
    \/ DisplayLines
    \/ WriteToFile
    \/ ClearLines
    \/ HardReset
    \/ RunScript
    \/ ProcExit
    \/ RunScriptReturn

Spec == Init /\ [][Next]_vars

\* ------------------------------------------- references held by a caller

\* ref = script.lines: the caller keeps a reference to the log's list object
TakeRef ==
    /\ pc = "idle"
    /\ held' = LogRef
    /\ last' = Call("script.lines", "", "returned", "", <<>>)
    /\ UNCHANGED <<caller_list, os_name, calls, lines, appended, fs, proc, pc>>

\* L.append(line): the caller changes its own list; the log changes with it
\* only if script.lines is bound to that very list object
CallerBuild ==
    /\ pc = "idle"
    /\ Len(caller_list.content) < MaxArgLen
    /\ \E l \in {<<"A">>} :
        /\ caller_list' = [caller_list EXCEPT !.content = Append(@, l)]
        /\ lines' = IF caller_list.is_log THEN Append(lines, l) ELSE lines
    /\ last' = Call("caller_list.append", "", "returned", "", <<>>)
    /\ UNCHANGED <<held, os_name, calls, appended, fs, proc, pc>>

\* script.append_lines(L) with the caller's list: self.lines.extend(lines)
\* copies the elements, the log stays bound to its own list object
AppendCallerList ==
    /\ pc = "idle"
    /\ Len(lines) + Len(caller_list.content) <= MaxLines
    /\ lines' = append_lines(lines, "list", caller_list.content)
    /\ appended' = appended \o caller_list.content
    /\ last' = [Call("append_lines", "", "returned", "", <<>>)
                   EXCEPT !.args = <<"list", Len(caller_list.content)>>]
    /\ UNCHANGED <<held, caller_list, os_name, calls, fs, proc, pc>>

\* a session of appends and clears with a caller that keeps references
NextRef ==
    \/ AppendStr
    \/ AppendCallerList
    \/ ClearLines
    \/ TakeRef
    \/ CallerBuild

SpecRef == Init /\ [][NextRef]_vars

\* ---------------------------------------------------- command formatters
\* A command formatter validates its arguments, builds the list `lines` of
\* its block and hands it to script.append_lines.  A line of a block is the
\* text of its string: one piece per literal part and per formatted value.

MaxCalls == 2       \* most formatter calls explored on one log

\* the first and third line of every banner
Rule == <<"#************************************************************************">>

Banner(title) == << Rule, <<title>>, Rule >>

\* what a formatter does: raise, or append the lines it built
FmtLines(block) == [error |-> "", lines |-> block]
FmtError(e) == [error |-> e, lines |-> <<>>]

\* a call of a command formatter
FmtCall(op, args, outcome, detail, block) ==
    [Call(op, "", outcome, detail, <<>>) EXCEPT !.args = args,
                                                !.block = block]

\* types.VALID_RUN_OPTIONS
VALID_RUN_OPTIONS == {"ENABLE", "DISABLE"}

\* fsinit.new_simulation
new_simulation ==
    FmtLines(Banner("#****************** Create a new simulation *****************************")
             \o << <<"#">>, <<"NEW_SIMULATION">> >>)

\* exec_solver.start_solver
start_solver ==
    FmtLines(Banner("#********* Run the solver ***********************************************")
             \o << <<"#">>, <<"START_SOLVER">> >>)

\* exec_solver.close_flightstream
close_flightstream ==
    FmtLines(Banner("#****************** Close FlightStream and exit *************************")
             \o << <<"#">>, <<"CLOSE_FLIGHTSTREAM">> >>)

\* solver.solver_remove_initialization
solver_remove_initialization ==
    FmtLines(Banner("#********* Remove the solver initialization *****************************")
             \o << <<"#">>, <<"SOLVER_REMOVE_INITIALIZATION">> >>)

\* ---- Python values of arguments that take more than one type
PyStr(s) == [type |-> "str", s |-> s, n |-> 0]
PyInt(n) == [type |-> "int", s |-> "", n |-> n]
\* a float with one decimal, held in tenths
PyFloat(tenths) == [type |-> "float", s |-> "", n |-> tenths]
PyNone == [type |-> "NoneType", s |-> "", n |-> 0]

\* isinstance(v, (int, float))
IsNumber(v) == v.type \in {"int", "float"}

\* the value of a number, in tenths
Tenths(v) == IF v.type = "int" THEN 10 * v.n ELSE v.n

\* str(v), as an f-string formats it
Str(v) ==
    CASE v.type = "str" -> v.s
      [] v.type = "int" -> ToString(v.n)
      [] v.type = "float" ->
           (IF v.n < 0 THEN "-" ELSE "")
               \o ToString((IF v.n < 0 THEN -v.n ELSE v.n) \div 10)
               \o "." \o ToString((IF v.n < 0 THEN -v.n ELSE v.n) % 10)
      [] OTHER -> "None"

\* ---- fsinit.open_fsm

\* the files on disk a formatter is given the path of
ExistingFiles == {"tests/helper_files/model.fsm"}
FsmPaths == {"tests/helper_files/model.fsm", "C:/does/not/exist.fsm"}

\* utils.check_file_existence: raises FileNotFoundError for a path that
\* names no file
check_file_existence(filepath) ==
    IF filepath \in ExistingFiles THEN "" ELSE "FileNotFoundError"

\* (variant: reset_parallel_cores is written to the script as well)
open_fsm_lines_reset(fsm_filepath, reset_parallel_cores, load_solver_initialization) ==
    Banner("#****************** Open an existing simulation file ********************")
        \o << <<"#">>,
              <<"OPEN">>,
              <<fsm_filepath>>,
              <<"RESET_PARALLEL_CORES ", reset_parallel_cores>>,
              <<"LOAD_SOLVER_INITIALIZATION ", load_solver_initialization>> >>

\* the lines open_fsm builds
open_fsm_lines(fsm_filepath, reset_parallel_cores, load_solver_initialization) ==
    Banner("#****************** Open an existing simulation file ********************")
        \o << <<"#">>,
              <<"OPEN">>,
              <<fsm_filepath>>,
              <<"LOAD_SOLVER_INITIALIZATION ", load_solver_initialization>> >>

\* (variant: load_solver_initialization is not validated)
open_fsm_unchecked(fsm_filepath, reset_parallel_cores, load_solver_initialization) ==
    IF check_file_existence(fsm_filepath) # ""
    THEN FmtError(check_file_existence(fsm_filepath))
    ELSE IF reset_parallel_cores \notin VALID_RUN_OPTIONS
    THEN FmtError("ValueError")
    ELSE FmtLines(open_fsm_lines(fsm_filepath, reset_parallel_cores,
                                 load_solver_initialization))

open_fsm(fsm_filepath, reset_parallel_cores, load_solver_initialization) ==
    IF check_file_existence(fsm_filepath) # ""
    THEN FmtError(check_file_existence(fsm_filepath))
    ELSE IF reset_parallel_cores \notin VALID_RUN_OPTIONS
    THEN FmtError("ValueError")
    ELSE IF load_solver_initialization \notin VALID_RUN_OPTIONS
    THEN FmtError("ValueError")
    ELSE FmtLines(open_fsm_lines(fsm_filepath, reset_parallel_cores,
                                 load_solver_initialization))

\* ---- solver.initialize_solver

valid_models ==
    {"INCOMPRESSIBLE", "SUBSONIC_PRANDTL_GLAUERT", "TRANSONIC_FIELD_PANEL",
     "SUPERSONIC_LINEAR_DOUBLET", "TANGENT_CONE", "MODIFIED_NEWTONIAN"}

valid_symmetry == {"NONE", "MIRROR", "PERIODIC"}

\* (variant: every model takes them)
WakeModels_all ==
    {"INCOMPRESSIBLE", "SUBSONIC_PRANDTL_GLAUERT", "TRANSONIC_FIELD_PANEL",
     "SUPERSONIC_LINEAR_DOUBLET", "TANGENT_CONE", "MODIFIED_NEWTONIAN"}

\* "solvers 1-3": the models that take a wake termination, wall collision
\* avoidance and stabilization
WakeModels ==
    {"INCOMPRESSIBLE", "SUBSONIC_PRANDTL_GLAUERT", "TRANSONIC_FIELD_PANEL"}

\* the surfaces argument: the int -1 (or another int), or a list whose
\* entries are (index, quad_mesher_enabled) tuples or plain ints
SurfacesInt(n) == [list |-> FALSE, n |-> n, items |-> <<>>]
SurfacesList(items) == [list |-> TRUE, n |-> 0, items |-> items]
SurfaceTuple(index, quad) == [tuple |-> TRUE, index |-> index, quad |-> quad]
SurfaceIndex(index) == [tuple |-> FALSE, index |-> index, quad |-> ""]

\* the list of ints converted to (index, 'ENABLE') tuples
ConvertSurfaces(surfaces) ==
    IF /\ surfaces.list
       /\ surfaces.items # <<>>
       /\ \A i \in 1..Len(surfaces.items) : ~surfaces.items[i].tuple
    THEN SurfacesList([i \in 1..Len(surfaces.items) |->
                          SurfaceTuple(surfaces.items[i].index, "ENABLE")])
    ELSE surfaces

\* the validation of initialize_solver: the error it raises, or ""
initialize_solver_check(a) ==
    LET surfaces == ConvertSurfaces(a.surfaces) IN
    IF a.solver_model \notin valid_models THEN "ValueError"
    ELSE IF ~(~a.surfaces.list /\ a.surfaces.n = -1)
            /\ \/ ~a.surfaces.list
               \/ \E i \in 1..Len(surfaces.items) :
                    \/ ~surfaces.items[i].tuple
                    \/ surfaces.items[i].quad \notin {"ENABLE", "DISABLE"}
    THEN "ValueError"
    ELSE IF a.symmetry \notin valid_symmetry THEN "ValueError"
    ELSE IF /\ a.symmetry = "PERIODIC"
            /\ \/ a.symmetry_periodicity.type # "int"
               \/ a.symmetry_periodicity.n <= 0
    THEN "ValueError"
    ELSE IF /\ a.solver_model \in WakeModels
            /\ a.wake_termination_x # PyStr("DEFAULT")
            /\ ~IsNumber(a.wake_termination_x)
    THEN "ValueError"
    ELSE IF /\ a.solver_model \in WakeModels
            /\ \/ a.wall_collision_avoidance \notin {"ENABLE", "DISABLE"}
               \/ a.stabilization \notin {"ENABLE", "DISABLE"}
    THEN "ValueError"
    ELSE IF /\ a.solver_model \in WakeModels
            /\ a.stabilization = "ENABLE"
            /\ \/ ~IsNumber(a.stabilization_strength)
               \/ ~(0 < Tenths(a.stabilization_strength)
                     /\ Tenths(a.stabilization_strength) < 50)
    THEN "ValueError"
    ELSE ""

\* the lines initialize_solver builds
initialize_solver_lines(a) ==
    LET surfaces == ConvertSurfaces(a.surfaces) IN
    Banner("#****************** Initialize the solver *******************************")
        \o << <<"#">>,
              <<"INITIALIZE_SOLVER">>,
              <<"SOLVER_MODEL ", a.solver_model>> >>
        \o (IF a.symmetry = "PERIODIC"
            THEN << <<"SYMMETRY_PERIODICITY ", Str(a.symmetry_periodicity)>> >>
            ELSE <<>>)
        \o (IF ~surfaces.list /\ surfaces.n = -1
            THEN << <<"SURFACES -1">> >>
            ELSE << <<"SURFACES ", ToString(Len(surfaces.items))>> >>
                 \o [i \in 1..Len(surfaces.items) |->
                        <<ToString(surfaces.items[i].index), ",",
                          surfaces.items[i].quad>>])
        \o (IF a.solver_model \in WakeModels
            THEN << <<"WAKE_TERMINATION_X ", Str(a.wake_termination_x)>> >>
            ELSE <<>>)
        \o (IF a.symmetry = "PERIODIC"
            THEN << <<"SYMMETRY ", a.symmetry, " ",
                      Str(a.symmetry_periodicity)>> >>
            ELSE << <<"SYMMETRY ", a.symmetry>> >>)
        \o (IF a.solver_model \in WakeModels
            THEN << <<"WALL_COLLISION_AVOIDANCE ",
                      a.wall_collision_avoidance>>,
                    IF a.stabilization = "ENABLE"
                    THEN <<"STABILIZATION ", a.stabilization, " ",
                           Str(a.stabilization_strength)>>
                    ELSE <<"STABILIZATION ", a.stabilization>> >>
            ELSE <<>>)

initialize_solver(a) ==
    IF initialize_solver_check(a) # ""
    THEN FmtError(initialize_solver_check(a))
    ELSE FmtLines(initialize_solver_lines(a))

\* the calls of initialize_solver explored
InitializeSolverArgs(m, sf, sy, st) ==
    [solver_model |-> m, surfaces |-> sf,
     wake_termination_x |-> PyStr("DEFAULT"), symmetry |-> sy,
     symmetry_periodicity |-> PyInt(4),
     wall_collision_avoidance |-> "DISABLE", stabilization |-> st,
     stabilization_strength |-> PyFloat(5)]

AllSurfaces == SurfacesInt(-1)
TwoSurfaces ==
    SurfacesList(<<SurfaceTuple(1, "ENABLE"), SurfaceTuple(2, "DISABLE")>>)

InitializeSolverBase ==
    InitializeSolverArgs("INCOMPRESSIBLE", AllSurfaces, "PERIODIC", "ENABLE")

InitializeSolverCalls ==
    { InitializeSolverArgs(m, sf, sy, st) :
        m \in valid_models, sf \in {AllSurfaces, TwoSurfaces},
        sy \in {"MIRROR", "PERIODIC"}, st \in VALID_RUN_OPTIONS }
    \cup
    { [InitializeSolverBase EXCEPT !.wake_termination_x = PyFloat(35)],
      [InitializeSolverBase EXCEPT !.wake_termination_x = PyStr("3.5")],
      [InitializeSolverBase EXCEPT !.solver_model = "EULER"],
      [InitializeSolverBase EXCEPT !.surfaces = SurfacesInt(3)],
      [InitializeSolverBase EXCEPT
          !.surfaces = SurfacesList(<<SurfaceIndex(1), SurfaceIndex(2)>>)],
      [InitializeSolverBase EXCEPT
          !.surfaces = SurfacesList(<<SurfaceTuple(1, "ON")>>)],
      [InitializeSolverBase EXCEPT !.symmetry = "XZ"],
      [InitializeSolverBase EXCEPT !.symmetry_periodicity = PyInt(0)],
      [InitializeSolverBase EXCEPT !.stabilization = "NOPE"],
      [InitializeSolverBase EXCEPT !.stabilization_strength = PyFloat(50)] }

\* ---- tools.execute_solver_sweeper

VALID_EXPORT_SURFACE_DATA_OPTIONS == {"DISABLE", "TXT", "CSV", "DAT", "VTK"}

\* the validation of execute_solver_sweeper: the error it raises, or ""
execute_solver_sweeper_check(a) ==
    IF \E option \in {a.angle_of_attack, a.side_slip_angle, a.velocity,
                      a.clear_solution_after_each_run,
                      a.reference_velocity_equals_freestream,
                      a.append_to_existing_sweep} :
           option \notin VALID_RUN_OPTIONS
    THEN "ValueError"
    ELSE IF a.export_surface_data_per_step
                \notin VALID_EXPORT_SURFACE_DATA_OPTIONS
    THEN "ValueError"
    ELSE IF /\ a.export_surface_data_per_step # "DISABLE"
            /\ a.surface_results_path = PyNone
    THEN "ValueError"
    ELSE ""

\* (variant: the surface path line is written whatever the export type)
execute_solver_sweeper_lines_path(a) ==
    Banner("#****************** Initialize and execute the solver sweeper ***********")
        \o << <<"EXECUTE_SOLVER_SWEEPER">>,
              <<"ANGLE_OF_ATTACK ", a.angle_of_attack>>,
              <<"SIDE_SLIP_ANGLE ", a.side_slip_angle>>,
              <<"VELOCITY ", a.velocity>>,
              <<"ANGLE_OF_ATTACK_START ", Str(a.angle_of_attack_start)>>,
              <<"ANGLE_OF_ATTACK_STOP ", Str(a.angle_of_attack_stop)>>,
              <<"ANGLE_OF_ATTACK_DELTA ", Str(a.angle_of_attack_delta)>>,
              <<"SIDE_SLIP_ANGLE_START ", Str(a.side_slip_angle_start)>>,
              <<"SIDE_SLIP_ANGLE_STOP ", Str(a.side_slip_angle_stop)>>,
              <<"SIDE_SLIP_ANGLE_DELTA ", Str(a.side_slip_angle_delta)>> >>
        \o (IF a.velocity_mode = "MACH"
            THEN << <<"MACH_START ", Str(a.velocity_start)>>,
                    <<"MACH_STOP ", Str(a.velocity_stop)>>,
                    <<"MACH_DELTA ", Str(a.velocity_delta)>> >>
            ELSE << <<"VELOCITY_START ", Str(a.velocity_start)>>,
                    <<"VELOCITY_STOP ", Str(a.velocity_stop)>>,
                    <<"VELOCITY_DELTA ", Str(a.velocity_delta)>> >>)
        \o << <<"EXPORT_SURFACE_DATA_PER_STEP ",
                a.export_surface_data_per_step>> >>
        \o << <<a.surface_results_path.s>> >>
        \o << <<"CLEAR_SOLUTION_AFTER_EACH_RUN ",
                a.clear_solution_after_each_run>>,
              <<"REFERENCE_VELOCITY_EQUALS_FREESTREAM ",
                a.reference_velocity_equals_freestream>>,
              <<"APPEND_TO_EXISTING_SWEEP ", a.append_to_existing_sweep>>,
              <<a.results_filename>> >>

\* the lines execute_solver_sweeper builds
execute_solver_sweeper_lines(a) ==
    Banner("#****************** Initialize and execute the solver sweeper ***********")
        \o << <<"EXECUTE_SOLVER_SWEEPER">>,
              <<"ANGLE_OF_ATTACK ", a.angle_of_attack>>,
              <<"SIDE_SLIP_ANGLE ", a.side_slip_angle>>,
              <<"VELOCITY ", a.velocity>>,
              <<"ANGLE_OF_ATTACK_START ", Str(a.angle_of_attack_start)>>,
              <<"ANGLE_OF_ATTACK_STOP ", Str(a.angle_of_attack_stop)>>,
              <<"ANGLE_OF_ATTACK_DELTA ", Str(a.angle_of_attack_delta)>>,
              <<"SIDE_SLIP_ANGLE_START ", Str(a.side_slip_angle_start)>>,
              <<"SIDE_SLIP_ANGLE_STOP ", Str(a.side_slip_angle_stop)>>,
              <<"SIDE_SLIP_ANGLE_DELTA ", Str(a.side_slip_angle_delta)>> >>
        \o (IF a.velocity_mode = "MACH"
            THEN << <<"MACH_START ", Str(a.velocity_start)>>,
                    <<"MACH_STOP ", Str(a.velocity_stop)>>,
                    <<"MACH_DELTA ", Str(a.velocity_delta)>> >>
            ELSE << <<"VELOCITY_START ", Str(a.velocity_start)>>,
                    <<"VELOCITY_STOP ", Str(a.velocity_stop)>>,
                    <<"VELOCITY_DELTA ", Str(a.velocity_delta)>> >>)
        \o << <<"EXPORT_SURFACE_DATA_PER_STEP ",
                a.export_surface_data_per_step>> >>
        \o (IF a.export_surface_data_per_step # "DISABLE"
            THEN << <<a.surface_results_path.s>> >>
            ELSE <<>>)
        \o << <<"CLEAR_SOLUTION_AFTER_EACH_RUN ",
                a.clear_solution_after_each_run>>,
              <<"REFERENCE_VELOCITY_EQUALS_FREESTREAM ",
                a.reference_velocity_equals_freestream>>,
              <<"APPEND_TO_EXISTING_SWEEP ", a.append_to_existing_sweep>>,
              <<a.results_filename>> >>

execute_solver_sweeper(a) ==
    IF execute_solver_sweeper_check(a) # ""
    THEN FmtError(execute_solver_sweeper_check(a))
    ELSE FmtLines(execute_solver_sweeper_lines(a))

\* the calls of execute_solver_sweeper explored: the defaults of the
\* signature, with the export type, the surface path, the velocity mode and
\* one run option varied
ExecuteSolverSweeperArgs(ex, path, mode, aoa) ==
    [results_filename |-> "C:/results/sweep.txt",
     angle_of_attack |-> aoa,
     side_slip_angle |-> "DISABLE",
     velocity |-> "DISABLE",
     velocity_mode |-> mode,
     angle_of_attack_start |-> PyFloat(0),
     angle_of_attack_stop |-> PyFloat(0),
     angle_of_attack_delta |-> PyFloat(10),
     side_slip_angle_start |-> PyFloat(0),
     side_slip_angle_stop |-> PyFloat(0),
     side_slip_angle_delta |-> PyFloat(10),
     velocity_start |-> PyFloat(0),
     velocity_stop |-> PyFloat(0),
     velocity_delta |-> PyFloat(10),
     export_surface_data_per_step |-> ex,
     surface_results_path |-> path,
     clear_solution_after_each_run |-> "ENABLE",
     reference_velocity_equals_freestream |-> "ENABLE",
     append_to_existing_sweep |-> "DISABLE"]

ExecuteSolverSweeperCalls ==
    { ExecuteSolverSweeperArgs(ex, path, mode, "ENABLE") :
        ex \in {"DISABLE", "CSV", "VTK", "PNG"},
        path \in {PyNone, PyStr("C:/results/surface")},
        mode \in {"VELOCITY", "MACH"} }
    \cup
    { ExecuteSolverSweeperArgs("CSV", PyStr("C:/results/surface"),
                               "VELOCITY", "NOPE"),
      ExecuteSolverSweeperArgs("CSV", PyNone, "VELOCITY", "NOPE") }

\* ---- arguments that are an int, a list or None

IntArg(n) == [type |-> "int", n |-> n, items |-> <<>>]
ListArg(items) == [type |-> "list", n |-> 0, items |-> items]
NoneArg == [type |-> "NoneType", n |-> 0, items |-> <<>>]

\* all(isinstance(i, int) for i in items)
AllInts(items) == \A i \in 1..Len(items) : items[i].type = "int"

\* ",".join(map(str, items)): the values with a comma between them
Join(items) ==
    IF items = <<>> THEN <<>>
    ELSE [k \in 1..(2 * Len(items) - 1) |->
             IF k % 2 = 1 THEN Str(items[(k + 1) \div 2]) ELSE ","]

\* the list [i1, ..., ik] of ints
IntList(ns) == ListArg([i \in 1..Len(ns) |-> PyInt(ns[i])])

\* ---- tools.stability_toolbox_new_coefficient

VALID_FORCE_UNITS_LIST ==
    {"COEFFICIENTS", "NEWTONS", "KILO-NEWTONS", "POUND-FORCE",
     "KILOGRAM-FORCE"}

\* the numerators and denominators accepted (the values the tests use)
VALID_STABILITY_NUMERATOR_LIST == {"CL", "FORCE_X"}
VALID_STABILITY_DENOMINATOR_LIST == {"AOA", "ROTX"}

\* (variant: the units are written to the script)
stability_toolbox_new_coefficient_lines_units(a) ==
    Banner("#********* Create a new S&C Coefficient *********************************")
        \o << <<"STABILITY_TOOLBOX_NEW_COEFFICIENT">>,
              <<"NAME ", a.name>>,
              <<"NUMERATOR ", a.numerator>>,
              <<"DENOMINATOR ", a.denominator>>,
              <<"FRAME ", Str(a.frame)>>,
              <<"UNITS ", a.units>>,
              <<"CONSTANT ", Str(a.constant)>> >>

\* the lines built before the boundaries are looked at
stability_toolbox_new_coefficient_lines(a) ==
    Banner("#********* Create a new S&C Coefficient *********************************")
        \o << <<"STABILITY_TOOLBOX_NEW_COEFFICIENT">>,
              <<"NAME ", a.name>>,
              <<"NUMERATOR ", a.numerator>>,
              <<"DENOMINATOR ", a.denominator>>,
              <<"FRAME ", Str(a.frame)>>,
              <<"CONSTANT ", Str(a.constant)>> >>

\* (variant: every line is appended to the log as soon as it is built)
stability_toolbox_new_coefficient_eager(a) ==
    IF \/ a.units \notin VALID_FORCE_UNITS_LIST
       \/ a.numerator \notin VALID_STABILITY_NUMERATOR_LIST
       \/ a.denominator \notin VALID_STABILITY_DENOMINATOR_LIST
       \/ ~IsNumber(a.constant)
    THEN FmtError("ValueError")
    ELSE IF a.boundaries.type = "int" /\ a.boundaries.n = -1
    THEN FmtLines(stability_toolbox_new_coefficient_lines(a)
                      \o << <<"BOUNDARIES -1">> >>)
    ELSE IF a.boundaries.type = "list"
    THEN FmtLines(stability_toolbox_new_coefficient_lines(a)
                      \o << <<"BOUNDARIES ",
                              ToString(Len(a.boundaries.items))>>,
                            Join(a.boundaries.items) >>)
    ELSE [error |-> "ValueError",
          lines |-> stability_toolbox_new_coefficient_lines(a)]

stability_toolbox_new_coefficient(a) ==
    IF \/ a.units \notin VALID_FORCE_UNITS_LIST
       \/ a.numerator \notin VALID_STABILITY_NUMERATOR_LIST
       \/ a.denominator \notin VALID_STABILITY_DENOMINATOR_LIST
       \/ ~IsNumber(a.constant)
    THEN FmtError("ValueError")
    ELSE IF a.boundaries.type = "int" /\ a.boundaries.n = -1
    THEN FmtLines(stability_toolbox_new_coefficient_lines(a)
                      \o << <<"BOUNDARIES -1">> >>)
    ELSE IF a.boundaries.type = "list"
    THEN FmtLines(stability_toolbox_new_coefficient_lines(a)
                      \o << <<"BOUNDARIES ",
                              ToString(Len(a.boundaries.items))>>,
                            Join(a.boundaries.items) >>)
    ELSE FmtError("ValueError")

StabilityArgs(units, numerator, boundaries) ==
    [frame |-> PyInt(2), units |-> units, numerator |-> numerator,
     denominator |-> "ROTX", constant |-> PyFloat(5),
     name |-> "ThrustDeriv", boundaries |-> boundaries]

StabilityCalls ==
    { StabilityArgs(units, "FORCE_X", boundaries) :
        units \in {"KILOGRAM-FORCE", "PER_RADIAN"},
        boundaries \in {IntArg(-1), IntList(<<1, 2, 4>>), ListArg(<<>>),
                        IntArg(3), NoneArg} }
    \cup { StabilityArgs("NEWTONS", "LIFT", IntArg(-1)) }

\* ---- set_solver.unsteady_solver_new_force_plot

\* the plot parameters accepted (the values the tests use)
VALID_UNSTEADY_FORCE_PLOT_PARAMETER_LIST == {"FORCE_X", "FORCE_Z"}

unsteady_solver_new_force_plot(a) ==
    IF a.frame.type # "int" THEN FmtError("ValueError")
    ELSE IF a.units \notin VALID_FORCE_UNITS_LIST THEN FmtError("ValueError")
    ELSE IF a.parameter \notin VALID_UNSTEADY_FORCE_PLOT_PARAMETER_LIST
    THEN FmtError("ValueError")
    ELSE FmtLines(
           Banner("#********* Create a new unsteady solver force & moments plot ************")
               \o << <<"#">>,
                     <<"UNSTEADY_SOLVER_NEW_FORCE_PLOT">>,
                     <<"FRAME ", Str(a.frame)>>,
                     <<"UNITS ", a.units>>,
                     <<"PARAMETER ", a.parameter>>,
                     <<"NAME ", a.name>>,
                     <<"BOUNDARIES ", Str(a.boundaries)>> >>
               \o (IF /\ a.boundaries # PyInt(-1)
                      /\ a.boundary_indices.type = "list"
                      /\ a.boundary_indices.items # <<>>
                   THEN << Join(a.boundary_indices.items) >>
                   ELSE <<>>))

UnsteadyArgs(frame, parameter, boundaries, boundary_indices) ==
    [frame |-> frame, units |-> "NEWTONS", parameter |-> parameter,
     name |-> "Tail_Load", boundaries |-> PyInt(boundaries),
     boundary_indices |-> boundary_indices]

UnsteadyCalls ==
    { UnsteadyArgs(PyInt(2), "FORCE_Z", -1, NoneArg),
      UnsteadyArgs(PyInt(2), "FORCE_Z", -1, IntList(<<1, 4, 5>>)),
      UnsteadyArgs(PyInt(2), "FORCE_Z", 3, IntList(<<1, 4, 5>>)),
      UnsteadyArgs(PyInt(2), "FORCE_Z", 2, IntList(<<1, 4, 5>>)),
      UnsteadyArgs(PyInt(2), "FORCE_Z", 3, NoneArg),
      UnsteadyArgs(PyFloat(20), "FORCE_Z", 3, IntList(<<1, 4, 5>>)),
      UnsteadyArgs(PyInt(2), "LIFT", -1, NoneArg) }

\* ---- fsinit.set_significant_digits

set_significant_digits(digits) ==
    IF digits.type # "int" \/ digits.n <= 0 THEN FmtError("ValueError")
    ELSE FmtLines(Banner("#****************** Set significant digits ******************************")
                      \o << <<"#">>,
                            <<"SET_SIGNIFICANT_DIGITS ", Str(digits)>> >>)

\* ---- commands that take a count and a list of indices

\* the block of such a command: the count on the command line, the indices
\* on the next line
CountedLines(title, keyword, count, indices) ==
    Banner(title)
        \o << <<"#">>,
              <<keyword, Str(count)>>,
              Join(indices.items) >>

wrapper_set_input(num_surfaces, surface_indices) ==
    IF num_surfaces.type # "int" \/ num_surfaces.n <= 0
    THEN FmtError("ValueError")
    ELSE IF \/ surface_indices.type # "list"
            \/ Len(surface_indices.items) # num_surfaces.n
    THEN FmtError("ValueError")
    ELSE IF ~(\A i \in 1..Len(surface_indices.items) :
                 /\ surface_indices.items[i].type = "int"
                 /\ surface_indices.items[i].n > 0)
    THEN FmtError("ValueError")
    ELSE FmtLines(CountedLines("#****************** Set wrapping input surfaces *************************", "WRAPPER_SET_INPUT ",
                               num_surfaces, surface_indices))

\* (variant: the count is not compared with the length of the list)
viscous_excluded_boundaries_unchecked(num_boundaries, boundaries) ==
    IF num_boundaries.type # "int" THEN FmtError("ValueError")
    ELSE IF boundaries.type # "list" \/ ~AllInts(boundaries.items)
    THEN FmtError("ValueError")
    ELSE FmtLines(CountedLines("#************** Set the viscous exclusion boundary list ****************", "SET_VISCOUS_EXCLUDED_BOUNDARIES ",
                               num_boundaries, boundaries))

viscous_excluded_boundaries(num_boundaries, boundaries) ==
    IF num_boundaries.type # "int" THEN FmtError("ValueError")
    ELSE IF boundaries.type # "list" \/ ~AllInts(boundaries.items)
    THEN FmtError("ValueError")
    ELSE IF Len(boundaries.items) # num_boundaries.n
    THEN FmtError("ValueError")
    ELSE FmtLines(CountedLines("#************** Set the viscous exclusion boundary list ****************", "SET_VISCOUS_EXCLUDED_BOUNDARIES ",
                               num_boundaries, boundaries))

analysis_boundaries(num_boundaries, boundaries_list) ==
    IF num_boundaries.type # "int" \/ num_boundaries.n <= 0
    THEN FmtError("ValueError")
    ELSE IF boundaries_list.type # "list" \/ ~AllInts(boundaries_list.items)
    THEN FmtError("ValueError")
    ELSE IF Len(boundaries_list.items) # num_boundaries.n
    THEN FmtError("ValueError")
    ELSE FmtLines(CountedLines("#****************** Set the solver analysis boundaries ******************", "SET_SOLVER_ANALYSIS_BOUNDARIES ",
                               num_boundaries, boundaries_list))

set_vorticity_drag_boundaries(num_boundaries, boundary_indices) ==
    IF num_boundaries.type # "int" THEN FmtError("ValueError")
    ELSE IF num_boundaries.n = -1
    THEN FmtLines(
           Banner("#****** Set a custom vorticity induced-drag boundary list ***************")
               \o << <<"#">>,
                     <<"SET_VORTICITY_DRAG_BOUNDARIES -1">>,
                     <<"# All mesh boundaries set as vorticity induced-drag boundaries.">> >>)
    ELSE IF \/ boundary_indices.type # "list"
            \/ ~AllInts(boundary_indices.items)
    THEN FmtError("ValueError")
    ELSE IF Len(boundary_indices.items) # num_boundaries.n
    THEN FmtError("ValueError")
    ELSE FmtLines(CountedLines("#****** Set a custom vorticity induced-drag boundary list ***************", "SET_VORTICITY_DRAG_BOUNDARIES ",
                               num_boundaries, boundary_indices))

\* the (count, indices) arguments explored
CountedCalls ==
    { [count |-> PyInt(3), indices |-> IntList(<<1, 2, 5>>)],
      [count |-> PyInt(2), indices |-> IntList(<<1, 2, 5>>)],
      [count |-> PyInt(1), indices |-> IntList(<<0>>)],
      [count |-> PyInt(0), indices |-> ListArg(<<>>)],
      [count |-> PyInt(-1), indices |-> NoneArg],
      [count |-> PyInt(-1), indices |-> IntList(<<1>>)],
      [count |-> PyInt(2), indices |-> NoneArg],
      [count |-> PyInt(1), indices |-> ListArg(<<PyStr("7")>>)],
      [count |-> PyFloat(30), indices |-> IntList(<<1, 2, 5>>)] }

\* (variant: the block replaces the log)
Formatter_replace(op, args, r) ==
    /\ pc = "idle"
    /\ calls < MaxCalls
    /\ calls' = calls + 1
    /\ IF r.error = ""
       THEN /\ lines' = r.lines
            /\ appended' = appended \o r.lines
            /\ last' = FmtCall(op, args, "returned", "", r.lines)
       ELSE /\ UNCHANGED <<lines, appended>>
            /\ last' = FmtCall(op, args, "raised", r.error, <<>>)
    /\ UNCHANGED <<held, caller_list, os_name, fs, proc, pc>>

\* the call: the lines the formatter hands to script.append_lines are
\* appended, and it returns or raises
Formatter(op, args, r) ==
    /\ pc = "idle"
    /\ calls < MaxCalls
    /\ calls' = calls + 1
    /\ lines' = append_lines(lines, "list", r.lines)
    /\ appended' = appended \o r.lines
    /\ last' = FmtCall(op, args,
                       IF r.error = "" THEN "returned" ELSE "raised",
                       r.error, r.lines)
    /\ UNCHANGED <<held, caller_list, os_name, fs, proc, pc>>

NewSimulation == Formatter("new_simulation", <<>>, new_simulation)

StartSolver == Formatter("start_solver", <<>>, start_solver)

CloseFlightstream ==
    Formatter("close_flightstream", <<>>, close_flightstream)

SolverRemoveInitialization ==
    Formatter("solver_remove_initialization", <<>>,
              solver_remove_initialization)

OpenFsm ==
    \E fsm_filepath \in FsmPaths :
    \E reset_parallel_cores \in VALID_RUN_OPTIONS \cup {"NOPE"} :
    \E load_solver_initialization \in VALID_RUN_OPTIONS \cup {"NOPE"} :
        Formatter("open_fsm",
                  [fsm_filepath |-> fsm_filepath,
                   reset_parallel_cores |-> reset_parallel_cores,
                   load_solver_initialization |-> load_solver_initialization],
                  open_fsm(fsm_filepath, reset_parallel_cores,
                           load_solver_initialization))

InitializeSolver ==
    \E a \in InitializeSolverCalls :
        Formatter("initialize_solver", a, initialize_solver(a))

ExecuteSolverSweeper ==
    \E a \in ExecuteSolverSweeperCalls :
        Formatter("execute_solver_sweeper", a, execute_solver_sweeper(a))

\* a script-building session: formatter calls and clear_lines
NextFmt ==
    \/ NewSimulation
    \/ StartSolver
    \/ CloseFlightstream
    \/ SolverRemoveInitialization
    \/ OpenFsm
    \/ InitializeSolver
    \/ ExecuteSolverSweeper
    \/ ClearLines

SpecFmt == Init /\ [][NextFmt]_vars

StabilityToolboxNewCoefficient ==
    \E a \in StabilityCalls :
        Formatter("stability_toolbox_new_coefficient", a,
                  stability_toolbox_new_coefficient(a))

UnsteadySolverNewForcePlot ==
    \E a \in UnsteadyCalls :
        Formatter("unsteady_solver_new_force_plot", a,
                  unsteady_solver_new_force_plot(a))

SetSignificantDigits ==
    \E digits \in {PyInt(5), PyInt(0), PyFloat(50)} :
        Formatter("set_significant_digits", [digits |-> digits],
                  set_significant_digits(digits))

WrapperSetInput ==
    \E c \in CountedCalls :
        Formatter("wrapper_set_input", c,
                  wrapper_set_input(c.count, c.indices))

ViscousExcludedBoundaries ==
    \E c \in CountedCalls :
        Formatter("viscous_excluded_boundaries", c,
                  viscous_excluded_boundaries(c.count, c.indices))

AnalysisBoundaries ==
    \E c \in CountedCalls :
        Formatter("analysis_boundaries", c,
                  analysis_boundaries(c.count, c.indices))

SetVorticityDragBoundaries ==
    \E c \in CountedCalls :
        Formatter("set_vorticity_drag_boundaries", c,
                  set_vorticity_drag_boundaries(c.count, c.indices))

\* a script-building session with the commands that take boundary or
\* surface indices, and formatters that validate their arguments
NextIdx ==
    \/ StabilityToolboxNewCoefficient
    \/ UnsteadySolverNewForcePlot
    \/ SetSignificantDigits
    \/ WrapperSetInput
    \/ ViscousExcludedBoundaries
    \/ AnalysisBoundaries
    \/ SetVorticityDragBoundaries
    \/ OpenFsm
    \/ ClearLines

SpecIdx == Init /\ [][NextIdx]_vars

\* ------------------------------------------------------- claims: helpers

IsPrefix(a, b) == Len(a) <= Len(b) /\ SubSeq(b, 1, Len(a)) = a

\* the first n lines of ls, each followed by one newline
RECURSIVE LinesWithNewlines(_, _)
LinesWithNewlines(ls, n) ==
    IF n = 0 THEN <<>>
    ELSE LinesWithNewlines(ls, n - 1) \o ls[n] \o <<NL>>

\* text.split('\n') of the reader: the pieces between the newlines
RECURSIVE SplitNL(_)
SplitNL(text) ==
    IF text = <<>> THEN << <<>> >>
    ELSE LET rest == SplitNL(Tail(text)) IN
         IF Head(text) = NL THEN << <<>> >> \o rest
         ELSE << <<Head(text)>> \o Head(rest) >> \o Tail(rest)

HasNewline(l) == \E i \in 1..Len(l) : l[i] = NL

Written == last.op = "write_to_file" /\ last.outcome = "returned"

\* ---------------------------------------------------------------- claims

\* C1: starting from an empty log, after any sequence of append_lines calls
\* the log is the concatenation of their arguments in call order (a single
\* line counting as a one-element list): nothing reordered, dropped, merged
\* or deduplicated.
C1_AppendOrder == lines = appended

C1_Witness ==
    /\ last.op = "append_lines"
    /\ Len(lines) = 2
    /\ lines[1] = <<"A">>
    /\ lines[2] = <<"A">>

\* C2: every step either keeps the previous log as a prefix of the new one
\* (it grows only in an append_lines call) or, in clear_lines and hard_reset,
\* leaves it empty; no single line is ever changed or removed.
C2_GrowOrClear ==
    [][ \/ /\ IsPrefix(lines, lines')
           /\ lines' # lines => last'.op = "append_lines"
        \/ /\ lines' = <<>>
           /\ last'.op \in {"clear_lines", "hard_reset"} ]_vars

C2_Witness ==
    /\ last.op = "append_lines"
    /\ last.detail = ""
    /\ Len(lines) = 2

\* C3: clear_lines always returns and leaves the log empty, whether it was
\* empty or not, and a second clear_lines right after a first changes
\* nothing.
C3_ClearIdempotent ==
    [][ last'.op = "clear_lines" =>
          /\ lines' = <<>>
          /\ last'.outcome = "returned"
          /\ last.op = "clear_lines" => UNCHANGED vars ]_vars

C3_Witness ==
    /\ last.op = "clear_lines"
    /\ lines = <<>>
    /\ fs[DefaultFilename].exists
    /\ Len(fs[DefaultFilename].content) > 2

\* C4: after a successful write_to_file(path) the file at path holds each
\* log line in order, each followed by one newline, and one more newline,
\* whatever it held before.
C4_FileContent ==
    Written =>
        fs[last.path] = File(LinesWithNewlines(lines, Len(lines)) \o <<NL>>)

C4_Witness ==
    /\ Written
    /\ lines = << <<"B", NL>>, <<"A">> >>

\* C5 as claimed: for any log, splitting the written file on the newline
\* character yields the log's lines followed by one empty string.
C5_RoundTripAnyLog ==
    Written => SplitNL(fs[last.path].content) = lines \o << <<>> >>

\* C5 amended: for any log none of whose lines holds a newline character,
\* splitting the written file on the newline character yields the log's
\* lines followed by two empty strings: the one after the last line's
\* newline and the one after the trailing newline.
C5_RoundTrip ==
    (Written /\ \A i \in 1..Len(lines) : ~HasNewline(lines[i])) =>
        SplitNL(fs[last.path].content) = lines \o << <<>>, <<>> >>

C5_Witness ==
    /\ Written
    /\ lines = << <<"A">>, <<>> >>

\* C6: write_to_file leaves the log as it was, and a second successful write
\* to the same path right after a first leaves the file as it was.
C6_WriteKeepsLog ==
    [][ last'.op = "write_to_file" =>
          /\ lines' = lines
          /\ (Written /\ last'.outcome = "returned"
                /\ last'.path = last.path) => fs' = fs ]_vars

C6_Witness ==
    /\ Written
    /\ lines # <<>>

\* C7: after hard_reset the log is empty and the call has returned, whether
\* the file was absent, was deleted, or could not be deleted; a failed
\* deletion is reported on the console.
C7_HardResetEmpties ==
    last.op = "hard_reset" =>
        /\ lines = <<>>
        /\ last.outcome = "returned"
        /\ last.detail \in {"oserror", "vanished"} =>
             last.printed = <<Msg("error", last.path, <<>>)>>

C7_Witness ==
    /\ last.op = "hard_reset"
    /\ last.detail = "oserror"
    /\ fs[last.path].exists

\* C8: hard_reset(filename) leaves no file at filename when the file existed
\* and os.remove succeeded; it creates no file; it touches no other file.
C8_HardResetRemoves ==
    [][ last'.op = "hard_reset" =>
          /\ (fs[last'.path].exists /\ last'.detail = "ok")
                => ~fs'[last'.path].exists
          /\ ~fs[last'.path].exists => ~fs'[last'.path].exists
          /\ \A p \in Paths \ {last'.path} : fs'[p] = fs[p] ]_vars

C8_Witness ==
    /\ last.op = "hard_reset"
    /\ last.detail = "ok"
    /\ last.path = OtherFilename
    /\ fs[DefaultFilename].exists

\* C9: the subprocess is started with [E, '-hidden', '-script', S] when
\* hidden is true and with [E, '-script', S] when it is false.
C9_Command ==
    proc.state # "none" =>
        proc.args = IF last.hidden
                    THEN <<last.exe, "-hidden", "-script", last.path>>
                    ELSE <<last.exe, "-script", last.path>>

C9_Witness ==
    /\ proc.state = "running"
    /\ last.hidden
    /\ last.path = DefaultFilename

\* C10: run_script returns only once the process has exited, and then
\* returns its exit code, standard output and standard error, for every
\* exit code; it does not raise on a non-zero one.
C10_RunResult ==
    [][ (pc = "waiting" /\ pc' = "idle") =>
          /\ proc.state = "exited"
          /\ last'.outcome = "returned"
          /\ last'.result = [args |-> proc.args,
                             returncode |-> proc.returncode,
                             stdout |-> proc.stdout,
                             stderr |-> proc.stderr] ]_vars

C10_Witness ==
    /\ last.op = "run_script"
    /\ last.outcome = "returned"
    /\ last.result.returncode = 1
    /\ last.result.stderr = "license error"

\* C11: when the executable cannot be started, run_script raises: it has
\* made one launch attempt, no subprocess runs and no result is returned.
C11_LaunchErrorPropagates ==
    (last.op = "run_script" /\ last.detail = "oserror") =>
        /\ last.outcome = "raised"
        /\ last.attempts = 1
        /\ last.result = NoResult
        /\ proc = NoProc
        /\ pc = "idle"

C11_Witness ==
    /\ last.op = "run_script"
    /\ last.detail = "oserror"
    /\ last.hidden

\* C12: when the file cannot be created or written, write_to_file raises,
\* prints no success message, and the log is what it was before the call.
C12_WriteErrorPropagates ==
    [][ (last'.op = "write_to_file" /\ last'.detail # "ok") =>
          /\ last'.outcome = "raised"
          /\ last'.printed = <<>>
          /\ lines' = lines ]_vars

C12_Witness ==
    /\ last.op = "write_to_file"
    /\ last.detail = "write_error"
    /\ Len(lines) = 2
    /\ fs[last.path].exists
    /\ Len(fs[last.path].content) = 1

LastLines(ls, n) == SubSeq(ls, Len(ls) - n + 1, Len(ls))

\* this step is a call of the formatter op
FmtStep(op) == last'.op = op /\ calls' = calls + 1

\* the three banner lines with the given title
BannerOf(title) ==
    << <<"#************************************************************************">>,
       <<title>>,
       <<"#************************************************************************">> >>

\* C13: after a clear, the log is the concatenation of the blocks of the
\* successful formatter calls in call order: each call appends its whole
\* block at the end and leaves the earlier lines in place; a failed call
\* leaves the log alone
C13_CallOrder ==
    /\ [](lines = appended)
    /\ [][ (calls' = calls + 1) =>
             /\ lines' = lines \o last'.block
             /\ last'.outcome = "returned" => last'.block # <<>>
             /\ last'.outcome = "raised" => last'.block = <<>> ]_vars

C13_Witness ==
    /\ calls = 2
    /\ last.op = "close_flightstream"
    /\ lines = new_simulation.lines \o close_flightstream.lines

\* C15: solver_remove_initialization appends five lines: the banner of
\* 'Remove the solver initialization', '#', and last the keyword
\* 'REMOVE_INITIALIZATION'
C15_RemoveInitializationBlock ==
    [][ FmtStep("solver_remove_initialization") =>
          lines' = lines
              \o BannerOf("#********* Remove the solver initialization *****************************")
              \o << <<"#">>, <<"REMOVE_INITIALIZATION">> >> ]_vars

\* C16: with symmetry PERIODIC, the block of initialize_solver has the four
\* header lines, INITIALIZE_SOLVER, SOLVER_MODEL and then at once the
\* SURFACES line; the periodicity appears only in the line
\* 'SYMMETRY PERIODIC n'; for a solver 1-3 model and surfaces -1 the block
\* has 11 lines
C16_PeriodicBlock ==
    (/\ last.op = "initialize_solver"
     /\ last.outcome = "returned"
     /\ last.args.symmetry = "PERIODIC") =>
        LET b == LastLines(lines, Len(last.block))
            n == Str(last.args.symmetry_periodicity)
        IN /\ b[4] = <<"#">>
           /\ b[5] = <<"INITIALIZE_SOLVER">>
           /\ b[6] = <<"SOLVER_MODEL ", last.args.solver_model>>
           /\ b[7][1] \in {"SURFACES -1", "SURFACES "}
           /\ \A i \in 1..Len(b) :
                (\E j \in 1..Len(b[i]) : b[i][j] = n)
                    => b[i] = <<"SYMMETRY ", "PERIODIC", " ", n>>
           /\ (/\ last.args.solver_model \in
                     {"INCOMPRESSIBLE", "SUBSONIC_PRANDTL_GLAUERT",
                      "TRANSONIC_FIELD_PANEL"}
               /\ last.args.surfaces = SurfacesInt(-1)) => Len(b) = 11

\* C17: initialize_solver emits WAKE_TERMINATION_X, WALL_COLLISION_AVOIDANCE
\* and STABILIZATION exactly for INCOMPRESSIBLE, SUBSONIC_PRANDTL_GLAUERT and
\* TRANSONIC_FIELD_PANEL; for the other models the block ends with the
\* SYMMETRY line; STABILIZATION carries the strength only when it is ENABLE
C17_WakeModelLines ==
    (last.op = "initialize_solver" /\ last.outcome = "returned") =>
        LET b == LastLines(lines, Len(last.block))
            a == last.args
            Has(keyword) == \E i \in 1..Len(b) : b[i][1] = keyword
            low == a.solver_model \in
                     {"INCOMPRESSIBLE", "SUBSONIC_PRANDTL_GLAUERT",
                      "TRANSONIC_FIELD_PANEL"}
        IN /\ Has("WAKE_TERMINATION_X ") <=> low
           /\ Has("WALL_COLLISION_AVOIDANCE ") <=> low
           /\ Has("STABILIZATION ") <=> low
           /\ ~low => b[Len(b)][1] = "SYMMETRY "
           /\ low => b[Len(b)] =
                       IF a.stabilization = "ENABLE"
                       THEN <<"STABILIZATION ", "ENABLE", " ",
                              Str(a.stabilization_strength)>>
                       ELSE <<"STABILIZATION ", "DISABLE">>

C17_Witness ==
    /\ last.op = "initialize_solver"
    /\ last.outcome = "returned"
    /\ last.args.solver_model = "TANGENT_CONE"
    /\ calls = 2
    /\ lines[Len(lines)][1] = "SYMMETRY "
    /\ \E i \in 1..Len(lines) :
         lines[i] = <<"STABILIZATION ", "ENABLE", " ", "0.5">>

\* C18 as stated: open_fsm raises ValueError and appends nothing whenever
\* reset_parallel_cores or load_solver_initialization is not ENABLE / DISABLE
C18_InvalidOptionValueError ==
    [][ (/\ FmtStep("open_fsm")
         /\ \/ last'.args.reset_parallel_cores \notin {"ENABLE", "DISABLE"}
            \/ last'.args.load_solver_initialization
                   \notin {"ENABLE", "DISABLE"}) =>
          /\ last'.outcome = "raised"
          /\ last'.detail = "ValueError"
          /\ lines' = lines ]_vars

\* C18: with an invalid reset_parallel_cores or load_solver_initialization,
\* open_fsm raises and appends nothing; the error is ValueError when the
\* file exists, and FileNotFoundError when it does not (the file is checked
\* first)
C18_InvalidOptionRaises ==
    [][ (/\ FmtStep("open_fsm")
         /\ \/ last'.args.reset_parallel_cores \notin {"ENABLE", "DISABLE"}
            \/ last'.args.load_solver_initialization
                   \notin {"ENABLE", "DISABLE"}) =>
          /\ last'.outcome = "raised"
          /\ last'.detail =
               IF last'.args.fsm_filepath \in ExistingFiles
               THEN "ValueError" ELSE "FileNotFoundError"
          /\ lines' = lines ]_vars

C18_Witness ==
    /\ last.op = "open_fsm"
    /\ last.args.fsm_filepath \in ExistingFiles
    /\ last.args.reset_parallel_cores = "ENABLE"
    /\ last.args.load_solver_initialization = "NOPE"
    /\ last.detail = "ValueError"
    /\ lines = start_solver.lines

C20_SweeperSurfacePath ==
    [][ FmtStep("execute_solver_sweeper") =>
          LET a == last'.args
              n == Len(lines') - Len(lines)
              b == LastLines(lines', n)
              exports == { i \in 1..n :
                             b[i][1] = "EXPORT_SURFACE_DATA_PER_STEP " }
              paths == { i \in 1..n : /\ a.surface_results_path # PyNone
                                      /\ b[i] = <<a.surface_results_path.s>> }
          IN /\ last'.outcome = "returned" =>
                  /\ lines' = lines \o b
                  /\ \E e \in 1..n :
                       /\ exports = {e}
                       /\ b[e] = <<"EXPORT_SURFACE_DATA_PER_STEP ",
                                   a.export_surface_data_per_step>>
                       /\ paths = IF a.export_surface_data_per_step = "DISABLE"
                                  THEN {} ELSE {e + 1}
                  /\ b[n] = <<a.results_filename>>
             /\ (/\ a.export_surface_data_per_step # "DISABLE"
                 /\ a.surface_results_path = PyNone) =>
                  /\ last'.outcome = "raised"
                  /\ last'.detail = "ValueError"
                  /\ lines' = lines ]_vars

C20_Witness ==
    /\ last.op = "execute_solver_sweeper"
    /\ last.outcome = "returned"
    /\ last.args.export_surface_data_per_step = "CSV"
    /\ last.args.velocity_mode = "MACH"
    /\ Len(last.block) = 22
    /\ Len(lines) = 27

\* ---- claims about the log's life cycle and its frame

\* C23: the log has no terminal state: whatever was written, run or reset,
\* a clear (to the empty log) stays possible, an append (to a non-empty log)
\* stays possible while the log holds fewer than MaxLines lines, and a
\* running run_script call can come to its end
C23_NoTerminalState ==
    /\ pc = "idle" =>
         /\ ENABLED (ClearLines /\ lines' = <<>>)
         /\ Len(lines) < MaxLines => ENABLED (AppendStr /\ lines' # <<>>)
    /\ pc = "waiting" => ENABLED (ProcExit \/ RunScriptReturn)

C23_Witness ==
    /\ last.op = "run_script"
    /\ last.outcome = "returned"
    /\ Len(lines) = 1
    /\ fs[DefaultFilename].exists
    /\ ~fs[OtherFilename].exists

\* C25: append_lines with an argument that is neither a str nor a list (a
\* tuple of lines, None) leaves the log unchanged and raises nothing; a str
\* adds one line and a list adds its elements
C25_AppendOtherIgnored ==
    [][ last'.op = "append_lines" =>
          /\ last'.outcome = "returned"
          /\ last'.args[1] \notin {"str", "list"} => lines' = lines
          /\ last'.args[1] = "str" =>
               Len(lines') = Len(lines) + 1 /\ IsPrefix(lines, lines')
          /\ last'.args[1] = "list" =>
               /\ Len(lines') = Len(lines) + last'.args[2]
               /\ IsPrefix(lines, lines') ]_vars

C25_Witness ==
    /\ last.op = "append_lines"
    /\ last.args = <<"tuple", 2>>
    /\ Len(lines) = 1

\* C26: clear_lines leaves the files alone: a script written earlier keeps
\* its content after clear_lines; a file is removed by hard_reset only
C26_ClearKeepsFile ==
    [][ /\ last'.op = "clear_lines" => fs' = fs /\ lines' = <<>>
        /\ (\E p \in Paths : fs[p].exists /\ ~fs'[p].exists) =>
              last'.op = "hard_reset" ]_vars

C26_Witness ==
    /\ last.op = "clear_lines"
    /\ lines = <<>>
    /\ fs[DefaultFilename] = File(FileText(<< <<"A">>, <<"B", NL>> >>))

\* C27: run_script, from its call to its return, changes neither the log
\* nor any file; the application is given the script path, and so reads
\* what the file holds, whatever the log holds by then
C27_RunScriptFrame ==
    [][ last'.op = "run_script" =>
          /\ lines' = lines
          /\ fs' = fs
          /\ proc'.state # "none" =>
               proc'.script = Resolve(os_name, last'.path) ]_vars

C27_Witness ==
    /\ last.op = "run_script"
    /\ last.outcome = "returned"
    /\ last.path = DefaultFilename
    /\ lines = <<>>
    /\ fs[DefaultFilename] = File(FileText(<< <<"A">> >>))

\* C28: when the file vanishes between hard_reset's existence check and
\* its removal, hard_reset still returns, with the log empty: the error is
\* caught and reported like any other removal failure
C28_VanishedFileCaught ==
    (last.op = "hard_reset" /\ last.detail = "vanished") =>
        /\ last.outcome = "returned"
        /\ lines = <<>>
        /\ ~fs[last.path].exists
        /\ last.printed = <<Msg("error", last.path, <<>>)>>

C28_Witness ==
    /\ last.op = "hard_reset"
    /\ last.detail = "vanished"
    /\ last.path = DefaultFilename
    /\ fs[OtherFilename].exists

\* C29: the log shares no storage with the caller's list: a change the
\* caller makes to its list after append_lines leaves the log alone;
\* clear_lines binds the log to a new list, so a reference taken earlier
\* keeps the old lines; a reference taken before an append_lines reads the
\* appended lines
C29_NoSharedStorage ==
    [][ /\ last'.op = "caller_list.append" => lines' = lines
        /\ last'.op = "clear_lines" =>
              Deref(held', lines') = Deref(held, lines)
        /\ last'.op = "append_lines" =>
              Deref(held', lines') =
                 IF held.state = "log" THEN lines' ELSE Deref(held, lines)
      ]_vars

C29_Witness ==
    /\ last.op = "clear_lines"
    /\ lines = <<>>
    /\ held.state = "old"
    /\ Len(held.content) = 2
    /\ Len(caller_list.content) = 2

\* ---- claims about the commands that take indices

\* the keyword a line starts with ("" for an empty line)
Keyword(l) == IF l = <<>> THEN "" ELSE l[1]

\* the number of comma-separated indices on a line
NumIndices(l) == Cardinality({i \in 1..Len(l) : l[i] # ","})

\* the line l lists the values of items, in order, with commas between
ListsIndices(l, items) ==
    /\ Len(l) = (IF items = <<>> THEN 0 ELSE 2 * Len(items) - 1)
    /\ \A j \in 1..Len(items) : l[2 * j - 1] = Str(items[j])
    /\ \A j \in 1..(Len(items) - 1) : l[2 * j] = ","

\* C21: stability_toolbox_new_coefficient ends its block with the single
\* line 'BOUNDARIES -1' when boundaries is -1, and with 'BOUNDARIES k' and
\* one line of the k comma-joined indices when boundaries is a list of k
\* indices; for any other boundaries it raises ValueError and appends
\* nothing; units is validated but produces no line
C21_StabilityBoundaries ==
    [][ FmtStep("stability_toolbox_new_coefficient") =>
          LET a == last'.args
              n == Len(lines') - Len(lines)
              b == LastLines(lines', n)
          IN /\ IsPrefix(lines, lines')
             /\ last'.outcome = "returned" =>
                  /\ \A i \in 1..n : Keyword(b[i]) # "UNITS "
                  /\ a.boundaries = IntArg(-1) =>
                       /\ b[n] = <<"BOUNDARIES -1">>
                       /\ Keyword(b[n - 1]) = "CONSTANT "
                  /\ a.boundaries.type = "list" =>
                       /\ Keyword(b[n - 2]) = "CONSTANT "
                       /\ b[n - 1] = <<"BOUNDARIES ",
                                       ToString(Len(a.boundaries.items))>>
                       /\ ListsIndices(b[n], a.boundaries.items)
             /\ (a.boundaries # IntArg(-1) /\ a.boundaries.type # "list") =>
                  /\ last'.outcome = "raised"
                  /\ last'.detail = "ValueError"
                  /\ lines' = lines
             /\ a.units \notin {"COEFFICIENTS", "NEWTONS", "KILO-NEWTONS",
                                "POUND-FORCE", "KILOGRAM-FORCE"} =>
                  /\ last'.outcome = "raised"
                  /\ last'.detail = "ValueError"
                  /\ lines' = lines ]_vars

C21_Witness ==
    /\ last.op = "stability_toolbox_new_coefficient"
    /\ last.outcome = "returned"
    /\ last.args.boundaries = IntList(<<1, 2, 4>>)
    /\ lines[Len(lines)] = <<"1", ",", "2", ",", "4">>
    /\ calls = 2
    /\ \E i \in 1..Len(lines) : lines[i] = <<"BOUNDARIES -1">>

\* C22: in a block of unsteady_solver_new_force_plot, boundaries is the
\* number of boundaries linked: with -1 the block ends with 'BOUNDARIES -1';
\* with n other than -1 the line 'BOUNDARIES n' is followed by one line of
\* the comma-joined indices, n of them
C22_ForcePlotBoundaries ==
    [][ (/\ FmtStep("unsteady_solver_new_force_plot")
         /\ last'.outcome = "returned") =>
          LET a == last'.args
              n == Len(lines') - Len(lines)
              b == LastLines(lines', n)
          IN IF a.boundaries = PyInt(-1)
             THEN b[n] = <<"BOUNDARIES ", "-1">>
             ELSE /\ b[n - 1] = <<"BOUNDARIES ", Str(a.boundaries)>>
                  /\ NumIndices(b[n]) = a.boundaries.n ]_vars

\* C24: a formatter call is all-or-nothing: when it raises (ValueError,
\* TypeError or FileNotFoundError), the log is what it was before the call
C24_AllOrNothing ==
    [][ (calls' = calls + 1 /\ last'.outcome = "raised") =>
          /\ lines' = lines
          /\ last'.detail \in {"ValueError", "TypeError",
                               "FileNotFoundError"} ]_vars

C24_Witness ==
    /\ last.op = "stability_toolbox_new_coefficient"
    /\ last.outcome = "raised"
    /\ last.args.boundaries = IntArg(3)
    /\ last.args.units = "KILOGRAM-FORCE"
    /\ calls = 2
    /\ Len(lines) = 5

\* C30: in every block of wrapper_set_input, viscous_excluded_boundaries,
\* analysis_boundaries and set_vorticity_drag_boundaries (count not -1) the
\* count on the command line equals the number of indices on the next
\* line; a call whose count differs from the length of the index list
\* raises ValueError and appends nothing
C30_CountMatchesIndices ==
    [][ (/\ calls' = calls + 1
         /\ last'.op \in {"wrapper_set_input", "viscous_excluded_boundaries",
                          "analysis_boundaries",
                          "set_vorticity_drag_boundaries"}
         /\ last'.args.count # PyInt(-1)) =>
          LET a == last'.args
              n == Len(lines') - Len(lines)
              b == LastLines(lines', n)
          IN /\ last'.outcome = "returned" =>
                  /\ lines' = lines \o b
                  /\ Keyword(b[n - 1]) =
                       (CASE last'.op = "wrapper_set_input" ->
                               "WRAPPER_SET_INPUT "
                          [] last'.op = "viscous_excluded_boundaries" ->
                               "SET_VISCOUS_EXCLUDED_BOUNDARIES "
                          [] last'.op = "analysis_boundaries" ->
                               "SET_SOLVER_ANALYSIS_BOUNDARIES "
                          [] OTHER -> "SET_VORTICITY_DRAG_BOUNDARIES ")
                  /\ b[n - 1][2] = Str(a.count)
                  /\ a.count.type = "int"
                  /\ NumIndices(b[n]) = a.count.n
                  /\ ListsIndices(b[n], a.indices.items)
             /\ (/\ a.indices.type = "list"
                 /\ ~(a.count.type = "int"
                        /\ a.count.n = Len(a.indices.items))) =>
                  /\ last'.outcome = "raised"
                  /\ last'.detail = "ValueError"
                  /\ lines' = lines ]_vars

C30_Witness ==
    /\ last.op = "set_vorticity_drag_boundaries"
    /\ last.outcome = "returned"
    /\ last.args.count = PyInt(3)
    /\ calls = 2
    /\ lines[5] = <<"WRAPPER_SET_INPUT ", "3">>
    /\ lines[6] = <<"1", ",", "2", ",", "5">>
    /\ lines[Len(lines)] = lines[6]

====


